---- MODULE Spec2Model ----
(***************************************************************************)
(* Model of the migration job store (app/api/storage.py), of the progress  *)
(* manager and its reader sessions (app/api/routes/events.py), and of the  *)
(* orchestrator's batch loop as section 4.3 of the design describes it.    *)
(***************************************************************************)
EXTENDS Integers, Sequences, FiniteSets, TLC

\* ------------------------------------------------------------------ bounds
MaxTime == 3          \* datetime.utcnow() takes the values 1..MaxTime
MaxCount == 1         \* counter values callers pass to update are 0..MaxCount
MaxQueues == 2        \* asyncio.Queue objects subscribe constructs
MaxQueueLen == 1      \* events a queue holds before the model stops filling it
MaxBatches == 1       \* non-empty batches the extraction connector has per entity
MaxBatchSize == 1     \* batch_size of the job a run executes
MaxFieldMappings == 2 \* field mappings of a mapping saved or previewed
MaxFields == 2        \* fields of a schema given to suggest_mappings
MaxTokens == 2        \* session tokens made by create_session_token

\* --------------------------------------------------------------- constants
MigrationIds == {"m1", "m2"}      \* the uuid4 strings create can hand out
\* entity_mappings values a caller can pass: the entities mapped, in order
MappingChoices == {<<"customers", "invoices">>, <<"customers">>}
NoTime == 0                       \* None in started_at / completed_at

\* MigrationStatusEnum
Statuses == {"DRAFT", "EXTRACTING", "TRANSFORMING", "LOADING",
             "COMPLETED", "FAILED", "CANCELLED"}
Running == {"EXTRACTING", "TRANSFORMING", "LOADING"}
Terminal == {"COMPLETED", "FAILED", "CANCELLED"}

\* Values a field of MigrationUpdate has when the caller did not set it
UnsetMappings == <<"unset">>
UnsetInt == -1
\* None in the total_records and message fields of a progress event
NoTotal == -1
NoMessage == "None"

VARIABLES
    migrations,   \* MigrationStorage._migrations: id -> MigrationResponse
    issued,       \* the uuid4 values already drawn
    now,          \* the value the next datetime.utcnow() returns
    queues,       \* MigrationProgressManager._queues: id -> set of queues
    items,        \* the contents of every asyncio.Queue constructed so far
    nq,           \* the number of asyncio.Queue objects constructed so far
    sessions,     \* the running event_generator of each queue: its migration
                  \* and its position
    orch,         \* the batch loop of each migration: its position and counters
    sent,         \* per migration, how many events its batch loop has
                  \* broadcast and the last of them (history)
    call,         \* the last call made on the progress manager by the callers
                  \* of ManagerSpec: operation, migration id, queue (history)
    _mappings,    \* MappingStorage._mappings: id -> MappingResponse
    previewed,    \* the request preview_transformation was called with and
                  \* what it returned
    suggested,    \* the request suggest_mappings was called with and what it
                  \* returned
    returned,     \* what the last call of update, update_status or delete on
                  \* the job store returned (history)
    bcast,        \* the _broadcast coroutine that is running: its position in
                  \* the loop over the subscribers
    _sessions,    \* auth._sessions: session token -> the instant it expires
    ntokens,      \* how many session tokens create_session_token has made
    auth,         \* the last call of the authentication endpoints: operation,
                  \* credentials or token given, and its answer (history)
    revoked       \* the tokens that were logged out or found expired (history)

storeVars == <<migrations, issued>>
managerVars == <<queues, items, nq>>
runVars == <<sessions, orch, sent>>
authVars == <<_sessions, ntokens, auth, revoked>>
apiVars == <<_mappings, previewed, suggested, returned, bcast, authVars>>
vars == <<migrations, issued, now, queues, items, nq, sessions, orch, sent, call,
          _mappings, previewed, suggested, returned, bcast,
          _sessions, ntokens, auth, revoked>>

\* The readings of the clock by two consecutive datetime.utcnow() calls:
\* the second is the first or a later instant.
Later(t) == {u \in t..(t + 1) : u <= MaxTime}

\* ------------------------------------------------------------ job store
\* The operations of the store say what they do to the store and to the
\* clock; the specifications below add what they leave alone.

\* MigrationResponse as built by MigrationStorage.create; the counters take
\* their defaults.
NewMigration(em, dry_run, t) ==
    [status |-> "DRAFT", entity_mappings |-> em, dry_run |-> dry_run,
     created_at |-> t, updated_at |-> t,
     started_at |-> NoTime, completed_at |-> NoTime,
     processed |-> 0, succeeded |-> 0, failed |-> 0]

\* create as it would be if line 47 replaced the dictionary by one holding
\* the new job alone
create_DropsOthers(mid, em, dry_run) ==
    /\ mid \notin issued
    /\ issued' = issued \cup {mid}
    /\ migrations' = [m \in {mid} |-> NewMigration(em, dry_run, now)]
    /\ UNCHANGED now

\* MigrationStorage.create(data)
create(mid, em, dry_run) ==
    /\ mid \notin issued
    /\ issued' = issued \cup {mid}
    /\ migrations' = [m \in DOMAIN migrations \cup {mid} |->
                        IF m = mid THEN NewMigration(em, dry_run, now)
                        ELSE migrations[m]]
    /\ UNCHANGED now

\* MigrationUpdate: the fields a caller of update can set, each either set
\* or left unset.
MigrationUpdate ==
    [entity_mappings : MappingChoices \cup {UnsetMappings},
     processed : 0..MaxCount \cup {UnsetInt},
     succeeded : 0..MaxCount \cup {UnsetInt},
     failed : 0..MaxCount \cup {UnsetInt}]

\* data.model_dump(exclude_unset=True): the keys the caller set
IsSet(data, key) ==
    IF key = "entity_mappings" THEN data[key] # UnsetMappings ELSE data[key] # UnsetInt

\* The body of update on a stored job: every set key is assigned, then
\* updated_at.
Updated(job, data, t) ==
    LET j == [k \in DOMAIN job |->
                IF k \in DOMAIN data /\ IsSet(data, k) THEN data[k] ELSE job[k]]
    IN  [j EXCEPT !.updated_at = t]

\* MigrationStorage.update(migration_id, data)
update(mid, data) ==
    IF mid \notin DOMAIN migrations
    THEN UNCHANGED <<migrations, issued, now>>
    ELSE /\ migrations' = [migrations EXCEPT ![mid] = Updated(@, data, now)]
         /\ UNCHANGED <<issued, now>>

\* delete as it would be if it took the first stored job when the id is
\* not in the store
delete_Fallback(mid) ==
    /\ migrations' = IF mid \in DOMAIN migrations \/ migrations = <<>>
                     THEN [m \in DOMAIN migrations \ {mid} |-> migrations[m]]
                     ELSE LET first == CHOOSE m \in DOMAIN migrations : TRUE
                          IN  [m \in DOMAIN migrations \ {first} |-> migrations[m]]
    /\ UNCHANGED <<issued, now>>

\* MigrationStorage.delete(migration_id)
delete(mid) ==
    /\ migrations' = [m \in DOMAIN migrations \ {mid} |-> migrations[m]]
    /\ UNCHANGED <<issued, now>>

\* update_status as it would be without the "not migration.started_at" test
StatusUpdated_Restamps(job, status, t1, t2) ==
    LET j == [job EXCEPT !.status = status, !.updated_at = t1]
    IN  IF status = "EXTRACTING"
        THEN [j EXCEPT !.started_at = t2]
        ELSE IF status \in Terminal
        THEN [j EXCEPT !.completed_at = t2]
        ELSE j

\* update_status as it would be with CANCELLED left out of the tuple of line 86
StatusUpdated_CancelUnstamped(job, status, t1, t2) ==
    LET j == [job EXCEPT !.status = status, !.updated_at = t1]
    IN  IF status = "EXTRACTING" /\ j.started_at = NoTime
        THEN [j EXCEPT !.started_at = t2]
        ELSE IF status \in {"COMPLETED", "FAILED"}
        THEN [j EXCEPT !.completed_at = t2]
        ELSE j

\* update_status as it would be if it let a job be cancelled from DRAFT only
StatusUpdated_CancelOnlyFromDraft(job, status, t1, t2) ==
    IF status = "CANCELLED" /\ job.status # "DRAFT"
    THEN job
    ELSE LET j == [job EXCEPT !.status = status, !.updated_at = t1]
         IN  IF status = "EXTRACTING" /\ j.started_at = NoTime
             THEN [j EXCEPT !.started_at = t2]
             ELSE IF status \in Terminal
             THEN [j EXCEPT !.completed_at = t2]
             ELSE j

\* The body of update_status on a stored job: t1 and t2 are the readings of
\* utcnow() at line 82 and at line 85 or 87.
StatusUpdated(job, status, t1, t2) ==
    LET j == [job EXCEPT !.status = status, !.updated_at = t1]
    IN  IF status = "EXTRACTING" /\ j.started_at = NoTime
        THEN [j EXCEPT !.started_at = t2]
        ELSE IF status \in Terminal
        THEN [j EXCEPT !.completed_at = t2]
        ELSE j

\* MigrationStorage.update_status(migration_id, status)
update_status(mid, status) ==
    IF mid \notin DOMAIN migrations
    THEN UNCHANGED <<migrations, issued, now>>
    ELSE \E t2 \in Later(now) :
            /\ migrations' = [migrations EXCEPT
                                ![mid] = StatusUpdated(@, status, now, t2)]
            /\ now' = t2
            /\ UNCHANGED issued

\* What a call returns, by its kind: None, a boolean, or the stored job
None == "None"
NoReturn == "nothing"

\* What update(migration_id, data) returns
update_returns(mid) ==
    returned' = IF mid \notin DOMAIN migrations THEN None ELSE "migration"

\* What update_status(migration_id, status) returns
update_status_returns(mid) ==
    returned' = IF mid \notin DOMAIN migrations THEN None ELSE "migration"

\* What delete(migration_id) returns
delete_returns(mid) ==
    returned' = IF mid \in DOMAIN migrations THEN "True" ELSE "False"

\* Time passes between two calls.
Tick ==
    /\ now < MaxTime
    /\ now' = now + 1
    /\ UNCHANGED storeVars

\* ------------------------------------------------------ progress manager
\* The operations of the manager say what they do to the registry and to
\* the queues; unsubscribe touches the registry alone.

\* The queues constructed so far, each known by its number.
Constructed == 1..nq

\* subscribe as it would be if line 24 assigned a set holding the new queue
\* alone
subscribe_Replaces(mid) ==
    /\ nq' = nq + 1
    /\ items' = [q \in 1..(nq + 1) |-> IF q = nq + 1 THEN <<>> ELSE items[q]]
    /\ queues' = [m \in DOMAIN queues \cup {mid} |->
                    IF m = mid THEN {nq + 1} ELSE queues[m]]

\* MigrationProgressManager.subscribe(migration_id); the queue returned is
\* the one numbered nq'.
subscribe(mid) ==
    /\ nq' = nq + 1
    /\ items' = [q \in 1..(nq + 1) |-> IF q = nq + 1 THEN <<>> ELSE items[q]]
    /\ queues' = [m \in DOMAIN queues \cup {mid} |->
                    IF m = mid
                    THEN (IF mid \in DOMAIN queues THEN queues[mid] ELSE {})
                            \cup {nq + 1}
                    ELSE queues[m]]

\* unsubscribe as it would be without the deletion of lines 32 and 33
unsubscribe_KeepsEmptyEntry(mid, q) ==
    queues' = IF mid \in DOMAIN queues
              THEN [queues EXCEPT ![mid] = @ \ {q}]
              ELSE queues

\* unsubscribe as it would be if it deleted the entry of the id with all
\* its queues
unsubscribe_ClearsId(mid, q) ==
    queues' = IF mid \in DOMAIN queues /\ q \in queues[mid]
              THEN [m \in DOMAIN queues \ {mid} |-> queues[m]]
              ELSE queues

\* unsubscribe as it would be if it discarded the queue from the set of
\* every id
unsubscribe_AnyId(mid, q) ==
    queues' = LET left == [m \in DOMAIN queues |-> queues[m] \ {q}]
              IN  [m \in {o \in DOMAIN queues : left[o] # {}} |-> left[m]]

\* MigrationProgressManager.unsubscribe(migration_id, queue)
unsubscribe(mid, q) ==
    queues' = IF mid \in DOMAIN queues
                 THEN IF queues[mid] \ {q} = {}
                      THEN [m \in DOMAIN queues \ {mid} |-> queues[m]]
                      ELSE [queues EXCEPT ![mid] = @ \ {q}]
                 ELSE queues

\* _broadcast as it would be if it did not look the subscribers up by id
_broadcast_Everyone(mid, event) ==
    /\ items' = [q \in DOMAIN items |->
                    IF \E m \in DOMAIN queues : q \in queues[m]
                    THEN Append(items[q], event)
                    ELSE items[q]]
    /\ UNCHANGED <<queues, nq>>

\* _broadcast as it would be if each queue were given the event twice
_broadcast_Twice(mid, event) ==
    /\ items' = IF mid \notin DOMAIN queues
                THEN items
                ELSE [q \in DOMAIN items |->
                        IF q \in queues[mid] THEN Append(Append(items[q], event), event)
                        ELSE items[q]]
    /\ UNCHANGED <<queues, nq>>

\* MigrationProgressManager._broadcast(migration_id, event): the queues are
\* unbounded, so no put waits and the loop runs to its end in one step.
_broadcast(mid, event) ==
    /\ items' = IF mid \notin DOMAIN queues
                THEN items
                ELSE [q \in DOMAIN items |->
                        IF q \in queues[mid] THEN Append(items[q], event)
                        ELSE items[q]]
    /\ UNCHANGED <<queues, nq>>

\* The event dictionaries of send_progress, send_step_complete, send_error
\* and send_complete.
ProgressEvent(phase, p, s, f, total, message, t) ==
    [type |-> "progress", phase |-> phase, records_processed |-> p,
     records_succeeded |-> s, records_failed |-> f, total_records |-> total,
     message |-> message, timestamp |-> t]

StepCompleteEvent(step_name, p, s, f, t) ==
    [type |-> "step_complete", step_name |-> step_name, records_processed |-> p,
     records_succeeded |-> s, records_failed |-> f, timestamp |-> t]

ErrorEvent(error, t) ==
    [type |-> "error", error |-> error, timestamp |-> t]

CompleteEvent(p, s, f, t) ==
    [type |-> "complete", total_processed |-> p, total_succeeded |-> s,
     total_failed |-> f, timestamp |-> t]

\* send_progress as it would be with records_processed written to the
\* records_succeeded key
send_progress_SwapsCounts(mid, phase, p, s, f, total, message) ==
    _broadcast(mid, ProgressEvent(phase, p, p, f, total, message, now))

\* MigrationProgressManager.send_progress
send_progress(mid, phase, p, s, f, total, message) ==
    _broadcast(mid, ProgressEvent(phase, p, s, f, total, message, now))

\* MigrationProgressManager.send_step_complete
send_step_complete(mid, step_name, p, s, f) ==
    _broadcast(mid, StepCompleteEvent(step_name, p, s, f, now))

\* send_error as it would be if the event did not carry the error given
send_error_NoMessage(mid, error) ==
    _broadcast(mid, ErrorEvent(NoMessage, now))

\* MigrationProgressManager.send_error
send_error(mid, error) ==
    _broadcast(mid, ErrorEvent(error, now))

\* send_complete as it would be with the succeeded and failed totals
\* written to each other's key
send_complete_SwapsTotals(mid, p, s, f) ==
    _broadcast(mid, CompleteEvent(p, f, s, now))

\* MigrationProgressManager.send_complete
send_complete(mid, p, s, f) ==
    _broadcast(mid, CompleteEvent(p, s, f, now))

\* get as it would be for queues that hand out their newest item first
queue_get_Newest(q) ==
    /\ q \in Constructed
    /\ items[q] # <<>>
    /\ items' = [items EXCEPT ![q] = SubSeq(@, 1, Len(@) - 1)]
    /\ UNCHANGED <<queues, nq>>

\* queue.get() by the holder of a queue (event_generator, line 132)
queue_get(q) ==
    /\ q \in Constructed
    /\ items[q] # <<>>
    /\ items' = [items EXCEPT ![q] = Tail(@)]
    /\ UNCHANGED <<queues, nq>>

\* ------------------------------------------------------ reader sessions
\* migration_events.event_generator: one running generator per queue.

\* The generator starts: subscribe, then the "connected" event
SessionOpen(mid) ==
    /\ subscribe(mid)
    /\ sessions' = [q \in DOMAIN sessions \cup {nq + 1} |->
                      IF q = nq + 1 THEN [mid |-> mid, pc |-> "waiting", type |-> "none"]
                      ELSE sessions[q]]

\* The end of a generator as it would be without the finally block
SessionEnd_KeepsQueue(q) ==
    /\ sessions' = [r \in DOMAIN sessions \ {q} |-> sessions[r]]
    /\ UNCHANGED managerVars

\* The finally block: the queue is unsubscribed and, no longer referenced,
\* goes with its contents
SessionEnd(q) ==
    /\ unsubscribe(sessions[q].mid, q)
    /\ items' = [items EXCEPT ![q] = <<>>]
    /\ sessions' = [r \in DOMAIN sessions \ {q} |-> sessions[r]]
    /\ UNCHANGED nq

\* Lines 132 to 136: an event arrives within the timeout and is yielded
SessionGet(q) ==
    /\ q \in DOMAIN sessions
    /\ sessions[q].pc = "waiting"
    /\ items[q] # <<>>
    /\ sessions' = [sessions EXCEPT ![q].pc = "yielded", ![q].type = Head(items[q]).type]
    /\ queue_get(q)

\* The generator resumed as it would be without the break of lines 139
\* and 140
SessionResume_NeverBreaks(q) ==
    /\ q \in DOMAIN sessions
    /\ sessions[q].pc = "yielded"
    /\ sessions' = [sessions EXCEPT ![q].pc = "waiting", ![q].type = "none"]
    /\ UNCHANGED managerVars

\* Lines 139 and 140: after a complete or error event the loop is left
SessionResume(q) ==
    /\ q \in DOMAIN sessions
    /\ sessions[q].pc = "yielded"
    /\ IF sessions[q].type \in {"complete", "error"}
       THEN SessionEnd(q)
       ELSE /\ sessions' = [sessions EXCEPT ![q].pc = "waiting", ![q].type = "none"]
            /\ UNCHANGED managerVars

\* The timeout as it would be if the handler unsubscribed the queue
SessionKeepalive_Unsubscribes(q) ==
    /\ q \in DOMAIN sessions
    /\ sessions[q].pc = "waiting"
    /\ items[q] = <<>>
    /\ sessions' = [sessions EXCEPT ![q].pc = "yielded", ![q].type = "keepalive"]
    /\ unsubscribe(sessions[q].mid, q)
    /\ UNCHANGED <<items, nq>>

\* Lines 142 to 147: no event within the timeout, a keepalive is yielded
SessionKeepalive(q) ==
    /\ q \in DOMAIN sessions
    /\ sessions[q].pc = "waiting"
    /\ items[q] = <<>>
    /\ sessions' = [sessions EXCEPT ![q].pc = "yielded", ![q].type = "keepalive"]
    /\ UNCHANGED managerVars

\* The client disconnects or an exception leaves the loop: the generator
\* is closed where it is suspended
SessionDisconnect(q) ==
    /\ q \in DOMAIN sessions
    /\ SessionEnd(q)

\* ---------------------------------------------------------- batch loop
\* The Migration Orchestrator's run of one job: it calls update_status and
\* update on the store and the send_ operations of the progress manager.

NoEvent == [type |-> "none"]

\* The retries a record's load is given after its first failure
RetryBudget == 2

\* The loop before run(): n records of the batch, valid of them passed
\* validation, pending of those are still to load, ok were loaded, bad are
\* failed (invalid, or out of retries); tries counts the failed attempts of
\* the record being loaded.
IdleLoop ==
    [pc |-> "idle", entity |-> 1, batches |-> 0, n |-> 0, valid |-> 0, ok |-> 0,
     pending |-> 0, tries |-> 0, bad |-> 0, load_called |-> FALSE,
     ep |-> 0, es |-> 0, ef |-> 0, tp |-> 0, ts |-> 0, tf |-> 0,
     cancel_requested |-> FALSE, acked |-> FALSE, error |-> NoMessage]

\* The phase named in a progress event
PhaseName(status) ==
    CASE status = "EXTRACTING" -> "extracting"
      [] status = "TRANSFORMING" -> "transforming"
      [] OTHER -> "loading"

\* The counters of a job as an update of it
CountersUpdate(p, s, f) ==
    [entity_mappings |-> UnsetMappings, processed |-> p, succeeded |-> s, failed |-> f]

\* A step of the loop that broadcasts nothing
Silent == UNCHANGED <<managerVars, sessions, sent, call, apiVars>>

\* A step of the loop that broadcasts event, by the send_ operation given
Emits(mid, send, event) ==
    /\ send
    /\ sent' = [sent EXCEPT ![mid] = [n |-> @.n + 1, last |-> event]]
    /\ UNCHANGED <<storeVars, now, sessions, call, apiVars>>

\* run(migration_id): the job leaves DRAFT and the loop starts
Run(mid) ==
    /\ mid \in DOMAIN migrations
    /\ migrations[mid].status = "DRAFT"
    /\ orch[mid].pc = "idle"
    /\ update_status(mid, "EXTRACTING")
    /\ orch' = [orch EXCEPT ![mid].pc = "boundary"]
    /\ Silent

\* cancel(migration_id): a DRAFT job is cancelled at once, a running one
\* is asked to stop
Cancel(mid) ==
    /\ mid \in DOMAIN migrations
    /\ \/ /\ orch[mid].pc = "idle"
          /\ migrations[mid].status = "DRAFT"
          /\ update_status(mid, "CANCELLED")
          /\ orch' = [orch EXCEPT ![mid].pc = "done"]
       \/ /\ orch[mid].pc \notin {"idle", "done"}
          /\ ~orch[mid].cancel_requested
          /\ orch' = [orch EXCEPT ![mid].cancel_requested = TRUE]
          /\ UNCHANGED <<storeVars, now>>
    /\ Silent

\* Step 7: at a batch boundary a requested cancellation stops the loop
ObserveCancel(mid) ==
    /\ orch[mid].pc = "boundary"
    /\ orch[mid].cancel_requested
    /\ update_status(mid, "CANCELLED")
    /\ orch' = [orch EXCEPT ![mid].pc = "done", ![mid].acked = TRUE]
    /\ Silent

\* Step 1: the next batch of the current entity; n = 0 is the empty batch
Fetch(mid, n) ==
    /\ orch[mid].pc = "boundary"
    /\ ~orch[mid].cancel_requested
    /\ n > 0 => orch[mid].batches < MaxBatches
    /\ orch' = [orch EXCEPT ![mid].pc = IF n = 0 THEN "entity_done" ELSE "fetched",
                            ![mid].n = n,
                            ![mid].batches = IF n = 0 THEN @ ELSE @ + 1]
    /\ UNCHANGED <<storeVars, now>>
    /\ Silent

\* A connector-fatal error of the extraction or of the load
Fatal(mid) ==
    /\ \/ orch[mid].pc = "boundary" /\ ~orch[mid].cancel_requested
       \/ orch[mid].pc = "loading"
    /\ orch' = [orch EXCEPT ![mid].pc = "failing",
                            ![mid].load_called = @ \/ orch[mid].pc = "loading",
                            ![mid].error = IF orch[mid].pc = "boundary"
                                           THEN "extract failed" ELSE "load failed"]
    /\ UNCHANGED <<storeVars, now>>
    /\ Silent

\* Step 2: transform and validate every record of the batch
Transform(mid, valid) ==
    /\ orch[mid].pc = "fetched"
    /\ valid \in 0..orch[mid].n
    /\ IF migrations[mid].status = "EXTRACTING"
       THEN update_status(mid, "TRANSFORMING")
       ELSE UNCHANGED <<storeVars, now>>
    /\ orch' = [orch EXCEPT ![mid].pc = "transformed", ![mid].valid = valid]
    /\ Silent

\* Load as it would be if step 3 did not look at dry_run
Load_IgnoresDryRun(mid) ==
    /\ orch[mid].pc = "transformed"
    /\ IF migrations[mid].status = "TRANSFORMING"
       THEN update_status(mid, "LOADING")
       ELSE UNCHANGED <<storeVars, now>>
    /\ LET o == orch[mid]
       IN  orch' = [orch EXCEPT ![mid].bad = o.n - o.valid,
                                ![mid].pending = o.valid,
                                ![mid].pc = IF o.valid = 0 THEN "loaded" ELSE "loading"]
    /\ Silent

\* Steps 3 and 4, the start: the invalid records are failed; a dry run
\* counts every valid record as succeeded and loads nothing, otherwise the
\* valid records are submitted to the load collaborator
Load(mid) ==
    /\ orch[mid].pc = "transformed"
    /\ IF migrations[mid].status = "TRANSFORMING"
       THEN update_status(mid, "LOADING")
       ELSE UNCHANGED <<storeVars, now>>
    /\ LET o == orch[mid]
       IN  orch' = IF migrations[mid].dry_run
                   THEN [orch EXCEPT ![mid].bad = o.n - o.valid,
                                     ![mid].ok = o.valid,
                                     ![mid].pc = "loaded"]
                   ELSE [orch EXCEPT ![mid].bad = o.n - o.valid,
                                     ![mid].pending = o.valid,
                                     ![mid].pc = IF o.valid = 0 THEN "loaded"
                                                 ELSE "loading"]
    /\ Silent

\* Attempt as it would be if a record out of retries were not counted
Attempt_DropsFailure(mid, loaded) ==
    /\ orch[mid].pc = "loading"
    /\ LET o == orch[mid]
           last == o.pending = 1
       IN  orch' = IF loaded
                   THEN [orch EXCEPT ![mid].ok = @ + 1, ![mid].pending = @ - 1,
                                     ![mid].tries = 0, ![mid].load_called = TRUE,
                                     ![mid].pc = IF last THEN "loaded" ELSE "loading"]
                   ELSE IF o.tries < RetryBudget
                   THEN [orch EXCEPT ![mid].tries = @ + 1, ![mid].load_called = TRUE]
                   ELSE [orch EXCEPT ![mid].pending = @ - 1,
                                     ![mid].tries = 0, ![mid].load_called = TRUE,
                                     ![mid].pc = IF last THEN "loaded" ELSE "loading"]
    /\ UNCHANGED <<storeVars, now>>
    /\ Silent

\* Step 4: the load collaborator is invoked for the next pending record.
\* A record that fails is tried again until its retries are used up and is
\* then failed; the batch goes on with the next record.
Attempt(mid, loaded) ==
    /\ orch[mid].pc = "loading"
    /\ LET o == orch[mid]
           last == o.pending = 1
       IN  orch' = IF loaded
                   THEN [orch EXCEPT ![mid].ok = @ + 1, ![mid].pending = @ - 1,
                                     ![mid].tries = 0, ![mid].load_called = TRUE,
                                     ![mid].pc = IF last THEN "loaded" ELSE "loading"]
                   ELSE IF o.tries < RetryBudget
                   THEN [orch EXCEPT ![mid].tries = @ + 1, ![mid].load_called = TRUE]
                   ELSE [orch EXCEPT ![mid].bad = @ + 1, ![mid].pending = @ - 1,
                                     ![mid].tries = 0, ![mid].load_called = TRUE,
                                     ![mid].pc = IF last THEN "loaded" ELSE "loading"]
    /\ UNCHANGED <<storeVars, now>>
    /\ Silent

\* Step 5, first half: the batch is counted and the counters are persisted
Persist(mid) ==
    /\ orch[mid].pc = "loaded"
    /\ LET o == orch[mid]
           c == [o EXCEPT !.ep = @ + o.n, !.es = @ + o.ok, !.ef = @ + o.bad,
                          !.tp = @ + o.n, !.ts = @ + o.ok, !.tf = @ + o.bad,
                          !.n = 0, !.valid = 0, !.ok = 0, !.bad = 0, !.pc = "counted"]
       IN  /\ update(mid, CountersUpdate(c.tp, c.ts, c.tf))
           /\ orch' = [orch EXCEPT ![mid] = c]
    /\ Silent

\* Step 5, second half: the progress event of the batch
Report(mid) ==
    /\ orch[mid].pc = "counted"
    /\ LET o == orch[mid]
           phase == PhaseName(migrations[mid].status)
       IN  Emits(mid,
                 send_progress(mid, phase, o.tp, o.ts, o.tf, NoTotal, NoMessage),
                 ProgressEvent(phase, o.tp, o.ts, o.tf, NoTotal, NoMessage, now))
    /\ orch' = [orch EXCEPT ![mid].pc = "boundary"]

\* Step 6: the step_complete event of the entity mapping that finished
StepComplete(mid) ==
    /\ orch[mid].pc = "entity_done"
    /\ LET o == orch[mid]
           e == Len(migrations[mid].entity_mappings)
           name == migrations[mid].entity_mappings[o.entity]
       IN  /\ Emits(mid,
                    send_step_complete(mid, name, o.ep, o.es, o.ef),
                    StepCompleteEvent(name, o.ep, o.es, o.ef, now))
           /\ orch' = [orch EXCEPT
                         ![mid].pc = IF o.entity = e THEN "finishing"
                                     ELSE "boundary",
                         ![mid].entity = IF o.entity = e THEN @ ELSE @ + 1,
                         ![mid].batches = 0,
                         ![mid].ep = 0, ![mid].es = 0, ![mid].ef = 0]

\* Step 8: every entity mapping finished
Finish(mid) ==
    /\ orch[mid].pc = "finishing"
    /\ update_status(mid, "COMPLETED")
    /\ orch' = [orch EXCEPT ![mid].pc = "completing"]
    /\ Silent

Complete(mid) ==
    /\ orch[mid].pc = "completing"
    /\ LET o == orch[mid]
       IN  Emits(mid, send_complete(mid, o.tp, o.ts, o.tf),
                 CompleteEvent(o.tp, o.ts, o.tf, now))
    /\ orch' = [orch EXCEPT ![mid].pc = "done"]

\* Step 8: a fatal error ends the run
Fail(mid) ==
    /\ orch[mid].pc = "failing"
    /\ update_status(mid, "FAILED")
    /\ orch' = [orch EXCEPT ![mid].pc = "erroring"]
    /\ Silent

Error(mid) ==
    /\ orch[mid].pc = "erroring"
    /\ Emits(mid, send_error(mid, orch[mid].error), ErrorEvent(orch[mid].error, now))
    /\ orch' = [orch EXCEPT ![mid].pc = "done"]

\* ------------------------------------------------------ saved mappings
\* The names of TRANSFORM_TYPES, the recognized transform kinds
TRANSFORM_TYPES ==
    {"direct", "prefix_add", "prefix_strip", "split_name", "enum_map",
     "iso_to_unix", "unix_to_iso", "country_code", "currency_convert", "concat",
     "template", "default", "computed", "uppercase", "lowercase", "trim",
     "nested_get"}

\* The transform kinds a caller names in the model: three recognized ones
\* and format_date, which is not in TRANSFORM_TYPES
TransformChoices == {"direct", "uppercase", "iso_to_unix", "format_date"}

MappingIds == {"a1", "a2"}        \* the uuid4 strings of saved mappings
FieldNames == {"id", "email"}     \* fields of the source and target entity

\* FieldMapping: one field of the target from one field of the source
FieldMapping ==
    [source_field : FieldNames, target_field : FieldNames, transform : TransformChoices]

\* The lists of at most n elements of S
ListsOf(S, n) == UNION {[1..k -> S] : k \in 0..n}

\* MappingSaveRequest: the field mappings a caller saves
MappingSaveRequest ==
    [field_mappings :
        ListsOf({fm \in FieldMapping :
                    fm.source_field = "email" /\ fm.target_field = "email"},
                MaxFieldMappings)]

\* MappingStorage.create(data)
MappingStorage_create(id, data) ==
    /\ id \notin issued
    /\ issued' = issued \cup {id}
    /\ _mappings' = [a \in DOMAIN _mappings \cup {id} |->
                       IF a = id
                       THEN [field_mappings |-> data.field_mappings, created_at |-> now]
                       ELSE _mappings[a]]

\* save_mapping(data)
save_mapping(id, data) == MappingStorage_create(id, data)

\* MappingStorage.delete(mapping_id)
MappingStorage_delete(id) ==
    /\ _mappings' = [a \in DOMAIN _mappings \ {id} |-> _mappings[a]]
    /\ UNCHANGED issued

\* delete_mapping(mapping_id): 404 when the mapping is not stored
delete_mapping(id) == MappingStorage_delete(id)

\* ------------------------------------------------------------- preview
\* The values of a source field: empty, an address, a date
FieldValues == {"", "a@b.c", "2020-01-01"}

\* What a source record gives for a field it does not have
Absent == "absent"

\* PreviewRequest: a source record and the field mappings to apply to it
SourceRecords == [FieldNames -> FieldValues \cup {Absent}]

PreviewRequest ==
    [source_record : SourceRecords,
     field_mappings : ListsOf(FieldMapping, MaxFieldMappings)]

\* The fields the schema of the target entity (chargebee Customer) marks
\* required
RequiredFields == {"id", "email"}

\* Transform Engine: the value of a source field, empty when it is missing
Lookup(record, field) ==
    IF record[field] # Absent THEN record[field] ELSE ""

Upper(v) == IF v = "a@b.c" THEN "A@B.C" ELSE v

\* Transform Engine: one transform applied to a value; iso_to_unix fails on
\* what is not a date
ApplyTransform(kind, v) ==
    CASE kind = "direct" -> [ok |-> TRUE, value |-> v]
      [] kind = "uppercase" -> [ok |-> TRUE, value |-> Upper(v)]
      [] kind = "iso_to_unix" ->
            IF v = "2020-01-01" THEN [ok |-> TRUE, value |-> "1577836800"]
            ELSE [ok |-> FALSE, value |-> v]

\* TransformEngine.transform_record: the field mappings applied in order;
\* a transform that fails leaves a validation error and no value
RECURSIVE transform_record(_, _)
transform_record(record, fms) ==
    IF fms = <<>>
    THEN [data |-> <<>>, validation_errors |-> <<>>]
    ELSE LET n == Len(fms)
             before == transform_record(record, SubSeq(fms, 1, n - 1))
             fm == fms[n]
             r == ApplyTransform(fm.transform, Lookup(record, fm.source_field))
         IN  IF r.ok
             THEN [before EXCEPT !.data =
                      [f \in DOMAIN before.data \cup {fm.target_field} |->
                          IF f = fm.target_field THEN r.value ELSE before.data[f]]]
             ELSE [before EXCEPT !.validation_errors =
                      Append(@, [field |-> fm.target_field, transform |-> fm.transform])]

\* preview_transformation as it would be if it answered is_valid whatever
\* the engine recorded
preview_transformation_AlwaysValid(data) ==
    IF \E i \in DOMAIN data.field_mappings :
          data.field_mappings[i].transform \notin TRANSFORM_TYPES
    THEN [status_code |-> 400, transformed_data |-> <<>>,
          validation_errors |-> <<>>, is_valid |-> FALSE]
    ELSE LET transformed == transform_record(data.source_record, data.field_mappings)
         IN  [status_code |-> 200,
              transformed_data |-> transformed.data,
              validation_errors |-> transformed.validation_errors,
              is_valid |-> TRUE]

\* preview_transformation(data): an exception, here the engine's refusal of
\* a transform kind it does not know, is answered with 400
preview_transformation(data) ==
    IF \E i \in DOMAIN data.field_mappings :
          data.field_mappings[i].transform \notin TRANSFORM_TYPES
    THEN [status_code |-> 400, transformed_data |-> <<>>,
          validation_errors |-> <<>>, is_valid |-> FALSE]
    ELSE LET transformed == transform_record(data.source_record, data.field_mappings)
         IN  [status_code |-> 200,
              transformed_data |-> transformed.data,
              validation_errors |-> transformed.validation_errors,
              is_valid |-> transformed.validation_errors = <<>>]

\* No call of preview_transformation yet
NoPreview == [called |-> FALSE]

\* -------------------------------------------------- suggested mappings
\* Field names are lower-case words joined by underscores, and no word is
\* part of another: one name is a substring of another exactly when its
\* words are consecutive words of the other, and lower() changes nothing.
Words(name) ==
    CASE name = "id" -> <<"id">>
      [] name = "name" -> <<"name">>
      [] name = "first_name" -> <<"first", "name">>
      [] name = "last_name" -> <<"last", "name">>
      [] name = "created" -> <<"created">>
      [] name = "created_date" -> <<"created", "date">>

\* a in b, for two field names
Contains(a, b) ==
    \E i \in 1..(Len(Words(b)) - Len(Words(a)) + 1) :
        SubSeq(Words(b), i, i + Len(Words(a)) - 1) = Words(a)

\* word in name, for one word
Has(word, name) == \E i \in DOMAIN Words(name) : Words(name)[i] = word

\* The common field name patterns
Patterns ==
    {"id", "name", "email", "phone", "address", "date", "time", "created", "updated"}

\* The fields of the schemas of a request: name and type
SchemaFields ==
    {[name |-> "id", type |-> "string"],
     [name |-> "name", type |-> "string"],
     [name |-> "first_name", type |-> "string"],
     [name |-> "last_name", type |-> "string"],
     [name |-> "created", type |-> "timestamp"],
     [name |-> "created_date", type |-> "string"]}

\* SuggestMappingsRequest: the fields of the two schemas
SuggestMappingsRequest ==
    [source_schema : ListsOf(SchemaFields, MaxFields),
     target_schema : ListsOf(SchemaFields, MaxFields)]

\* The similarity score of a source field for a target field
Score(source_field, target_field) ==
    (IF source_field.name = target_field.name THEN 100
     ELSE IF \/ Contains(source_field.name, target_field.name)
             \/ Contains(target_field.name, source_field.name) THEN 70
     ELSE IF \E pattern \in Patterns :
                Has(pattern, source_field.name) /\ Has(pattern, target_field.name)
          THEN 50
     ELSE 0)
    + (IF source_field.type = target_field.type THEN 10 ELSE 0)

\* The index of best_match after the loop over the source fields: the first
\* field, among those whose name is not mapped yet, of the highest score,
\* when that score is above 0; 0 for None
BestMatch(source_fields, target_field, mapped_source_fields) ==
    LET open == {i \in DOMAIN source_fields :
                    source_fields[i].name \notin mapped_source_fields}
        top == {i \in open :
                    /\ Score(source_fields[i], target_field) > 0
                    /\ \A j \in open : Score(source_fields[j], target_field)
                                            <= Score(source_fields[i], target_field)}
    IN  IF top = {} THEN 0 ELSE CHOOSE i \in top : \A j \in top : i <= j

\* The transform suggested for a target field and its best match
SuggestedTransform(best_match, target_field) ==
    IF Has("name", target_field.name) /\ Has("name", best_match.name)
    THEN IF Has("first", target_field.name) THEN "split_name"
         ELSE IF Has("last", target_field.name) THEN "split_name"
         ELSE "direct"
    ELSE IF best_match.type \in {"integer", "timestamp"} /\ Has("date", target_field.name)
         THEN "format_date"
    ELSE "direct"

\* The loop of suggest_mappings over the first n target fields: the
\* suggested mappings and the names of the source fields they use
RECURSIVE SuggestLoop(_, _, _)
SuggestLoop(source_fields, target_fields, n) ==
    IF n = 0 THEN [suggested_mappings |-> <<>>, mapped_source_fields |-> {}]
    ELSE LET before == SuggestLoop(source_fields, target_fields, n - 1)
             target_field == target_fields[n]
             b == BestMatch(source_fields, target_field, before.mapped_source_fields)
         IN  IF b # 0 /\ Score(source_fields[b], target_field) >= 40
             THEN [suggested_mappings |->
                      Append(before.suggested_mappings,
                             [source_field |-> source_fields[b].name,
                              target_field |-> target_field.name,
                              transform |-> SuggestedTransform(source_fields[b],
                                                               target_field)]),
                   mapped_source_fields |->
                      before.mapped_source_fields \cup {source_fields[b].name}]
             ELSE before

\* suggest_mappings(request): the list under "mappings" of what it returns
suggest_mappings(request) ==
    SuggestLoop(request.source_schema, request.target_schema,
                Len(request.target_schema)).suggested_mappings

\* No call of suggest_mappings yet
NoSuggestion == [called |-> FALSE]

\* ------------------------------------------- _broadcast, step by step
\* _broadcast as the event loop runs it: the coroutine keeps the loop to
\* itself until an await suspends it, and await queue.put(event) suspends
\* only while the queue is full.

\* The maxsize of the queues subscribe constructs: asyncio.Queue() has none
QueueMaxSize == 0

\* full as it would be for queues constructed with maxsize MaxQueueLen
full_Bounded(q) == Len(items[q]) >= MaxQueueLen

\* asyncio.Queue.full()
full(q) == QueueMaxSize > 0 /\ Len(items[q]) >= QueueMaxSize

\* No _broadcast is running
IdleBroadcast ==
    [pc |-> "idle", mid |-> "none", event |-> NoEvent, size |-> 0,
     start |-> {}, todo |-> {}, done |-> {}]

\* The other coroutines run when no broadcast holds the event loop
Runnable == bcast.pc \in {"idle", "suspended", "failed"}

\* The events the sender broadcasts
BroadcastEvents == {ErrorEvent("fatal", now), CompleteEvent(2, 1, 1, now)}

\* Lines 37 to 40: the lookup of the id and the start of the iteration
\* over its set
BroadcastBegin(mid, event) ==
    /\ bcast.pc = "idle"
    /\ mid \in DOMAIN queues
    /\ bcast' = [pc |-> "iterating", mid |-> mid, event |-> event,
                 size |-> Cardinality(queues[mid]),
                 start |-> queues[mid], todo |-> queues[mid], done |-> {}]
    /\ UNCHANGED managerVars

\* Lines 40 and 41, one turn of the loop: the iteration raises
\* RuntimeError when the set has changed its size since it started and
\* ends when no queue is left; otherwise the next queue is given the event,
\* after a wait for room when it is full
BroadcastStep ==
    /\ bcast.pc \in {"iterating", "suspended"}
    /\ LET now_set == IF bcast.mid \in DOMAIN queues THEN queues[bcast.mid] ELSE {}
       IN  IF Cardinality(now_set) # bcast.size
           THEN /\ bcast' = [bcast EXCEPT !.pc = "failed"]
                /\ UNCHANGED managerVars
           ELSE IF bcast.todo = {}
           THEN /\ bcast' = IdleBroadcast
                /\ UNCHANGED managerVars
           ELSE \E q \in bcast.todo :
                   IF full(q)
                   THEN /\ bcast' = [bcast EXCEPT !.pc = "suspended"]
                        /\ UNCHANGED managerVars
                   ELSE /\ items' = [items EXCEPT ![q] = Append(@, bcast.event)]
                        /\ bcast' = [bcast EXCEPT !.pc = "iterating",
                                                  !.todo = @ \ {q},
                                                  !.done = @ \cup {q}]
                        /\ UNCHANGED <<queues, nq>>

\* ------------------------------------------------------ authentication
\* The admin credentials, and the credentials a login request can carry
ADMIN_USERNAME == "admin"
ADMIN_PASSWORD == "smoothexit2024"
Usernames == {ADMIN_USERNAME, "guest"}
Passwords == {ADMIN_PASSWORD, "wrong"}

\* The life of a session; the clock counts in units of it
SESSION_DURATION == 1

\* The tokens a request can carry: token k is the k-th that
\* secrets.token_urlsafe(32) gave, and no token is given twice.
Tokens == 1..MaxTokens

\* The last call and its answer
Auth(op, username, password, token, ok) ==
    [op |-> op, username |-> username, password |-> password,
     token |-> token, ok |-> ok]

NoAuth == Auth("none", "none", "none", 0, FALSE)

\* verify_credentials(username, password)
verify_credentials(username, password) ==
    username = ADMIN_USERNAME /\ password = ADMIN_PASSWORD

\* create_session_token(): the new token expires SESSION_DURATION from now
create_session_token ==
    /\ ntokens' = ntokens + 1
    /\ _sessions' = [t \in DOMAIN _sessions \cup {ntokens + 1} |->
                       IF t = ntokens + 1 THEN now + SESSION_DURATION
                       ELSE _sessions[t]]

\* login(request): 401 for wrong credentials, else a new session
login(username, password) ==
    IF ~verify_credentials(username, password)
    THEN /\ auth' = Auth("login", username, password, 0, FALSE)
         /\ UNCHANGED <<_sessions, ntokens, revoked>>
    ELSE /\ create_session_token
         /\ auth' = Auth("login", username, password, ntokens + 1, TRUE)
         /\ UNCHANGED revoked

\* logout(request) with the token the request carries
logout(token) ==
    /\ IF token \in DOMAIN _sessions
       THEN /\ _sessions' = [t \in DOMAIN _sessions \ {token} |-> _sessions[t]]
            /\ revoked' = revoked \cup {token}
       ELSE UNCHANGED <<_sessions, revoked>>
    /\ auth' = Auth("logout", "none", "none", token, TRUE)
    /\ UNCHANGED ntokens

\* verify_session_token as it would be without the test of the expiry
verify_session_token_IgnoresExpiry(token) ==
    /\ auth' = Auth("verify_session_token", "none", "none", token,
                    token \in DOMAIN _sessions)
    /\ UNCHANGED <<_sessions, ntokens, revoked>>

\* verify_session_token(token)
verify_session_token(token) ==
    IF token \notin DOMAIN _sessions
    THEN /\ auth' = Auth("verify_session_token", "none", "none", token, FALSE)
         /\ UNCHANGED <<_sessions, ntokens, revoked>>
    ELSE IF now > _sessions[token]
    THEN /\ _sessions' = [t \in DOMAIN _sessions \ {token} |-> _sessions[t]]
         /\ revoked' = revoked \cup {token}
         /\ auth' = Auth("verify_session_token", "none", "none", token, FALSE)
         /\ UNCHANGED ntokens
    ELSE /\ auth' = Auth("verify_session_token", "none", "none", token, TRUE)
         /\ UNCHANGED <<_sessions, ntokens, revoked>>

\* ------------------------------------------------------- specifications
Called(op, mid, q) == [op |-> op, mid |-> mid, q |-> q]

Init ==
    /\ migrations = <<>>
    /\ issued = {}
    /\ now = 1
    /\ queues = <<>>
    /\ items = <<>>
    /\ nq = 0
    /\ orch = [m \in MigrationIds |-> IdleLoop]
    /\ sent = [m \in MigrationIds |-> [n |-> 0, last |-> NoEvent]]
    /\ sessions = <<>>
    /\ call = Called("none", "none", 0)
    /\ _mappings = <<>>
    /\ previewed = NoPreview
    /\ suggested = NoSuggestion
    /\ returned = NoReturn
    /\ bcast = IdleBroadcast
    /\ _sessions = <<>>
    /\ ntokens = 0
    /\ auth = NoAuth
    /\ revoked = {}

\* The job store under any sequence of create, update_status and delete
\* calls, with time passing. Neither call reads the mappings or dry_run of
\* a job: one value of each is drawn.
SpecMappings == {<<"customers", "invoices">>}

Next ==
    \/ \E mid \in MigrationIds, em \in SpecMappings :
            create(mid, em, FALSE) /\ UNCHANGED <<managerVars, runVars, call, apiVars>>
    \/ \E mid \in MigrationIds, s \in Statuses :
            update_status(mid, s) /\ UNCHANGED <<managerVars, runVars, call, apiVars>>
    \/ \E mid \in MigrationIds : delete(mid) /\ UNCHANGED <<managerVars, runVars, call, apiVars>>
    \/ Tick /\ UNCHANGED <<managerVars, runVars, call, apiVars>>

Spec == Init /\ [][Next]_vars

\* The job store with one job, under any sequence of create, update,
\* update_status and delete calls.
StoreIds == {"m1"}

StoreNext ==
    \/ \E mid \in StoreIds, em \in MappingChoices, dry_run \in BOOLEAN :
            create(mid, em, dry_run) /\ UNCHANGED <<managerVars, runVars, call, apiVars>>
    \/ \E mid \in MigrationIds, data \in MigrationUpdate :
            update(mid, data) /\ UNCHANGED <<managerVars, runVars, call, apiVars>>
    \/ \E mid \in MigrationIds, s \in Statuses :
            update_status(mid, s) /\ UNCHANGED <<managerVars, runVars, call, apiVars>>
    \/ \E mid \in MigrationIds : delete(mid) /\ UNCHANGED <<managerVars, runVars, call, apiVars>>
    \/ Tick /\ UNCHANGED <<managerVars, runVars, call, apiVars>>

StoreSpec == Init /\ [][StoreNext]_vars

\* The job store as its callers see it: every call with what it returned.
\* One job is created; update, update_status and delete are called with
\* its id and with an id the store never issued.
ReturnData ==
    {d \in MigrationUpdate : d.succeeded = UnsetInt /\ d.failed = UnsetInt}

ReturnNext ==
    \/ \E mid \in StoreIds, em \in SpecMappings :
            /\ create(mid, em, FALSE)
            /\ call' = Called("create", mid, 0)
            /\ returned' = "migration"
            /\ UNCHANGED <<managerVars, runVars, _mappings, previewed, suggested, bcast, authVars>>
    \/ \E mid \in MigrationIds, data \in ReturnData :
            /\ update(mid, data)
            /\ update_returns(mid)
            /\ call' = Called("update", mid, 0)
            /\ UNCHANGED <<managerVars, runVars, _mappings, previewed, suggested, bcast, authVars>>
    \/ \E mid \in MigrationIds, s \in Statuses :
            /\ update_status(mid, s)
            /\ update_status_returns(mid)
            /\ call' = Called("update_status", mid, 0)
            /\ UNCHANGED <<managerVars, runVars, _mappings, previewed, suggested, bcast, authVars>>
    \/ \E mid \in MigrationIds :
            /\ delete(mid)
            /\ delete_returns(mid)
            /\ call' = Called("delete", mid, 0)
            /\ UNCHANGED <<managerVars, runVars, _mappings, previewed, suggested, bcast, authVars>>
    \/ /\ Tick
       /\ call' = Called("Tick", "none", 0)
       /\ UNCHANGED <<managerVars, runVars, apiVars>>

ReturnSpec == Init /\ [][ReturnNext]_vars

\* The authentication endpoints under any sequence of logins, logouts and
\* verifications of a token, with time passing; at most MaxTokens logins
\* succeed.
AuthNext ==
    \/ \E username \in Usernames, password \in Passwords :
            /\ verify_credentials(username, password) => ntokens < MaxTokens
            /\ login(username, password)
            /\ UNCHANGED <<storeVars, now, managerVars, runVars, call, _mappings,
                           previewed, suggested, returned, bcast>>
    \/ \E token \in Tokens :
            /\ logout(token)
            /\ UNCHANGED <<storeVars, now, managerVars, runVars, call, _mappings,
                           previewed, suggested, returned, bcast>>
    \/ \E token \in Tokens :
            /\ verify_session_token(token)
            /\ UNCHANGED <<storeVars, now, managerVars, runVars, call, _mappings,
                           previewed, suggested, returned, bcast>>
    \/ /\ Tick
       /\ auth' = Auth("Tick", "none", "none", 0, FALSE)
       /\ UNCHANGED <<managerVars, runVars, call, _mappings, previewed, suggested,
                      returned, bcast, _sessions, ntokens, revoked>>

AuthSpec == Init /\ [][AuthNext]_vars

\* The progress manager under any sequence of calls by subscribers and by a
\* sender; a queue is filled up to MaxQueueLen events.
Counts == {<<2, 1, 1>>}

Room(mid) ==
    mid \in DOMAIN queues => \A q \in queues[mid] : Len(items[q]) < MaxQueueLen

ManagerNext ==
    \/ \E mid \in MigrationIds :
            /\ nq < MaxQueues
            /\ subscribe(mid)
            /\ call' = Called("subscribe", mid, nq + 1)
            /\ UNCHANGED <<storeVars, now, runVars, apiVars>>
    \/ \E mid \in MigrationIds, q \in Constructed :
            /\ unsubscribe(mid, q)
            /\ call' = Called("unsubscribe", mid, q)
            /\ UNCHANGED <<items, nq, storeVars, now, runVars, apiVars>>
    \/ \E mid \in MigrationIds, c \in Counts :
            /\ Room(mid)
            /\ send_progress(mid, "loading", c[1], c[2], c[3], NoTotal, NoMessage)
            /\ call' = Called("send_progress", mid, 0)
            /\ UNCHANGED <<storeVars, now, runVars, apiVars>>
    \/ \E mid \in MigrationIds, c \in Counts :
            /\ Room(mid)
            /\ send_step_complete(mid, "customers", c[1], c[2], c[3])
            /\ call' = Called("send_step_complete", mid, 0)
            /\ UNCHANGED <<storeVars, now, runVars, apiVars>>
    \/ \E mid \in MigrationIds :
            /\ Room(mid)
            /\ send_error(mid, "fatal")
            /\ call' = Called("send_error", mid, 0)
            /\ UNCHANGED <<storeVars, now, runVars, apiVars>>
    \/ \E mid \in MigrationIds, c \in Counts :
            /\ Room(mid)
            /\ send_complete(mid, c[1], c[2], c[3])
            /\ call' = Called("send_complete", mid, 0)
            /\ UNCHANGED <<storeVars, now, runVars, apiVars>>
    \/ \E q \in Constructed :
            /\ queue_get(q)
            /\ call' = Called("get", "none", q)
            /\ UNCHANGED <<storeVars, now, runVars, apiVars>>

ManagerSpec == Init /\ [][ManagerNext]_vars

\* One job created and run by its batch loop, with subscribers coming,
\* reading and going, and a cancellation that may be requested at any time.
RunIds == {"m1"}
RunReaders == {1}     \* the queues of the reader sessions of the run

RunNext ==
    \/ \E mid \in RunIds, em \in MappingChoices, dry_run \in BOOLEAN :
            create(mid, em, dry_run) /\ UNCHANGED <<managerVars, runVars, call, apiVars>>
    \/ \E mid \in RunIds : Run(mid)
    \/ \E mid \in RunIds : Cancel(mid)
    \/ \E mid \in RunIds : ObserveCancel(mid)
    \/ \E mid \in RunIds, n \in 0..MaxBatchSize : Fetch(mid, n)
    \/ \E mid \in RunIds : Fatal(mid)
    \/ \E mid \in RunIds, valid \in 0..MaxBatchSize : Transform(mid, valid)
    \/ \E mid \in RunIds : Load(mid)
    \/ \E mid \in RunIds, loaded \in BOOLEAN : Attempt(mid, loaded)
    \/ \E mid \in RunIds : Persist(mid)
    \/ \E mid \in RunIds : Room(mid) /\ Report(mid)
    \/ \E mid \in RunIds : Room(mid) /\ StepComplete(mid)
    \/ \E mid \in RunIds : Finish(mid)
    \/ \E mid \in RunIds : Room(mid) /\ Complete(mid)
    \/ \E mid \in RunIds : Fail(mid)
    \/ \E mid \in RunIds : Room(mid) /\ Error(mid)
    \/ \E mid \in RunIds :
            /\ nq + 1 \in RunReaders
            /\ SessionOpen(mid)
            /\ UNCHANGED <<storeVars, now, orch, sent, call, apiVars>>
    \/ \E q \in Constructed : SessionGet(q) /\ UNCHANGED <<storeVars, now, orch, sent, call, apiVars>>
    \/ \E q \in Constructed : SessionResume(q) /\ UNCHANGED <<storeVars, now, orch, sent, call, apiVars>>
    \/ \E q \in Constructed :
            SessionKeepalive(q) /\ UNCHANGED <<storeVars, now, orch, sent, call, apiVars>>
    \/ \E q \in Constructed :
            SessionDisconnect(q) /\ UNCHANGED <<storeVars, now, orch, sent, call, apiVars>>

RunSpec == Init /\ [][RunNext]_vars

\* A step of a batch loop that has been started
LoopStep ==
    \E mid \in RunIds :
        \/ ObserveCancel(mid)
        \/ \E n \in 0..MaxBatchSize : Fetch(mid, n)
        \/ \E valid \in 0..MaxBatchSize : Transform(mid, valid)
        \/ Load(mid)
        \/ \E loaded \in BOOLEAN : Attempt(mid, loaded)
        \/ Persist(mid)
        \/ Room(mid) /\ Report(mid)
        \/ Room(mid) /\ StepComplete(mid)
        \/ Finish(mid)
        \/ Room(mid) /\ Complete(mid)
        \/ Fail(mid)
        \/ Room(mid) /\ Error(mid)

\* A step of a generator that its client has not closed
ReaderStep ==
    \E q \in RunReaders :
        /\ SessionGet(q) \/ SessionResume(q) \/ SessionKeepalive(q)
        /\ UNCHANGED <<storeVars, now, orch, sent, call, apiVars>>

\* The run with its schedule: the event loop lets a started batch loop and
\* an open generator go on; whether a client disconnects, and whether run
\* or cancel is called, is left open.
RunFairSpec == RunSpec /\ WF_vars(LoopStep) /\ WF_vars(ReaderStep)

\* Reader sessions of the event stream, opened, served and closed at any
\* time, under any sequence of broadcasts.
SessionNext ==
    \/ \E mid \in MigrationIds :
            /\ nq < MaxQueues
            /\ SessionOpen(mid)
            /\ UNCHANGED <<storeVars, now, orch, sent, call, apiVars>>
    \/ \E q \in Constructed : SessionGet(q) /\ UNCHANGED <<storeVars, now, orch, sent, call, apiVars>>
    \/ \E q \in Constructed : SessionResume(q) /\ UNCHANGED <<storeVars, now, orch, sent, call, apiVars>>
    \/ \E q \in Constructed :
            SessionKeepalive(q) /\ UNCHANGED <<storeVars, now, orch, sent, call, apiVars>>
    \/ \E q \in Constructed :
            SessionDisconnect(q) /\ UNCHANGED <<storeVars, now, orch, sent, call, apiVars>>
    \/ \E mid \in MigrationIds, c \in Counts :
            /\ Room(mid)
            /\ send_progress(mid, "loading", c[1], c[2], c[3], NoTotal, NoMessage)
            /\ UNCHANGED <<storeVars, now, runVars, call, apiVars>>
    \/ \E mid \in MigrationIds, c \in Counts :
            /\ Room(mid)
            /\ send_step_complete(mid, "customers", c[1], c[2], c[3])
            /\ UNCHANGED <<storeVars, now, runVars, call, apiVars>>
    \/ \E mid \in MigrationIds :
            /\ Room(mid)
            /\ send_error(mid, "fatal")
            /\ UNCHANGED <<storeVars, now, runVars, call, apiVars>>
    \/ \E mid \in MigrationIds, c \in Counts :
            /\ Room(mid)
            /\ send_complete(mid, c[1], c[2], c[3])
            /\ UNCHANGED <<storeVars, now, runVars, call, apiVars>>

SessionSpec == Init /\ [][SessionNext]_vars

\* The mapping store under any sequence of save and delete requests.
MappingNext ==
    \/ \E id \in MappingIds, data \in MappingSaveRequest :
            /\ save_mapping(id, data)
            /\ UNCHANGED <<migrations, now, managerVars, runVars, call, previewed, suggested, returned, bcast, authVars>>
    \/ \E id \in MappingIds :
            /\ delete_mapping(id)
            /\ UNCHANGED <<migrations, now, managerVars, runVars, call, previewed, suggested, returned, bcast, authVars>>

MappingSpec == Init /\ [][MappingNext]_vars

\* One preview request: the endpoint keeps no state, so one call stands
\* for every call.
PreviewNext ==
    /\ previewed = NoPreview
    /\ \E data \in PreviewRequest :
        /\ previewed' = [called |-> TRUE, request |-> data,
                         response |-> preview_transformation(data)]
        /\ UNCHANGED <<storeVars, now, managerVars, runVars, call, _mappings,
                       suggested, returned, bcast, authVars>>

PreviewSpec == Init /\ [][PreviewNext]_vars

\* One request for suggestions: the endpoint keeps no state, so one call
\* stands for every call.
SuggestNext ==
    /\ suggested = NoSuggestion
    /\ \E request \in SuggestMappingsRequest :
        /\ suggested' = [called |-> TRUE, request |-> request,
                         mappings |-> suggest_mappings(request)]
        /\ UNCHANGED <<storeVars, now, managerVars, runVars, call, _mappings,
                       previewed, returned, bcast, authVars>>

SuggestSpec == Init /\ [][SuggestNext]_vars

\* The progress manager with its broadcasts run turn by turn, among the
\* subscribe, unsubscribe and get calls of the reader sessions; a queue
\* that holds MaxQueueLen events is given one more and then no further.
Fits(mid) ==
    mid \in DOMAIN queues => \A q \in queues[mid] : Len(items[q]) <= MaxQueueLen

BroadcastNext ==
    \/ \E mid \in MigrationIds :
            /\ Runnable
            /\ nq < MaxQueues
            /\ subscribe(mid)
            /\ UNCHANGED <<storeVars, now, runVars, call, _mappings, previewed, suggested, returned, bcast, authVars>>
    \/ \E mid \in MigrationIds, q \in Constructed :
            /\ Runnable
            /\ unsubscribe(mid, q)
            /\ UNCHANGED <<items, nq, storeVars, now, runVars, call,
                           _mappings, previewed, suggested, returned, bcast, authVars>>
    \/ \E q \in Constructed :
            /\ Runnable
            /\ queue_get(q)
            /\ UNCHANGED <<storeVars, now, runVars, call, _mappings, previewed, suggested, returned, bcast, authVars>>
    \/ \E mid \in MigrationIds, event \in BroadcastEvents :
            /\ Fits(mid)
            /\ BroadcastBegin(mid, event)
            /\ UNCHANGED <<storeVars, now, runVars, call, _mappings, previewed, suggested,
                       returned, authVars>>
    \/ /\ BroadcastStep
       /\ UNCHANGED <<storeVars, now, runVars, call, _mappings, previewed, suggested,
                       returned, authVars>>

BroadcastSpec == Init /\ [][BroadcastNext]_vars

\* Two migrations side by side: their jobs in the store, moved by
\* update_status, or their subscribers in the progress manager, with
\* broadcasts for either. The store and the progress manager share no
\* variable: a behaviour exercises one of the two.
IsolationNext ==
    \/ \E mid \in MigrationIds, em \in SpecMappings :
            /\ nq = 0
            /\ create(mid, em, FALSE)
            /\ call' = Called("create", mid, 0)
            /\ UNCHANGED <<managerVars, runVars, apiVars>>
    \/ \E mid \in MigrationIds, s \in Statuses :
            /\ nq = 0
            /\ update_status(mid, s)
            /\ call' = Called("update_status", mid, 0)
            /\ UNCHANGED <<managerVars, runVars, apiVars>>
    \/ \E mid \in MigrationIds :
            /\ issued = {}
            /\ nq < MaxQueues
            /\ subscribe(mid)
            /\ call' = Called("subscribe", mid, nq + 1)
            /\ UNCHANGED <<storeVars, now, runVars, apiVars>>
    \/ \E mid \in MigrationIds, q \in Constructed :
            /\ unsubscribe(mid, q)
            /\ call' = Called("unsubscribe", mid, q)
            /\ UNCHANGED <<items, nq, storeVars, now, runVars, apiVars>>
    \/ \E mid \in MigrationIds :
            /\ issued = {}
            /\ Room(mid)
            /\ send_error(mid, "fatal")
            /\ call' = Called("send_error", mid, 0)
            /\ UNCHANGED <<storeVars, now, runVars, apiVars>>

IsolationSpec == Init /\ [][IsolationNext]_vars

\* ================================================================ claims
\* The jobs a step keeps: stored before it and after it.
Kept == DOMAIN migrations \cap DOMAIN migrations'

\* The edges of the status state machine.
Forward(a, b) ==
    \/ a = "DRAFT" /\ b = "EXTRACTING"
    \/ a = "EXTRACTING" /\ b = "TRANSFORMING"
    \/ a = "TRANSFORMING" /\ b = "LOADING"
    \/ a = "LOADING" /\ b = "COMPLETED"

Edge(a, b) ==
    \/ Forward(a, b)
    \/ a \in Running /\ b = "FAILED"
    \/ a \in {"DRAFT"} \cup Running /\ b = "CANCELLED"

\* C1: every change of a job's status follows an edge of the state machine.
C1_StatusFollowsEdges ==
    [][\A m \in Kept :
          migrations'[m].status # migrations[m].status
              => Edge(migrations[m].status, migrations'[m].status)]_vars

\* C2: a job whose status is COMPLETED, FAILED or CANCELLED keeps that
\* status whatever update_status is called with.
C2_TerminalAbsorbing ==
    [][\A m \in Kept :
          migrations[m].status \in Terminal
              => migrations'[m].status = migrations[m].status]_vars

\* C5: started_at is set when update_status moves a job to EXTRACTING and
\* it was not set, it is set by nothing else, and once set it never changes.
C5_StartedAtSetOnce ==
    [][\A m \in Kept :
          LET old == migrations[m]
              new == migrations'[m]
          IN  /\ old.started_at # NoTime => new.started_at = old.started_at
              /\ new.status = "EXTRACTING" => new.started_at # NoTime
              /\ (old.started_at = NoTime /\ new.started_at # NoTime)
                    => new.status = "EXTRACTING" /\ new.started_at \in now..now']_vars

\* A job moved to EXTRACTING again, later than its start.
C5_Witness ==
    \E m \in DOMAIN migrations :
        /\ migrations[m].status = "EXTRACTING"
        /\ migrations[m].started_at # NoTime
        /\ migrations[m].updated_at > migrations[m].started_at

\* C6: a job whose status is COMPLETED, FAILED or CANCELLED has
\* completed_at set.
C6_TerminalHasCompletedAt ==
    \A m \in DOMAIN migrations :
        migrations[m].status \in Terminal => migrations[m].completed_at # NoTime

\* Jobs in each of the three terminal statuses.
C6_Witness ==
    /\ DOMAIN migrations = MigrationIds
    /\ migrations["m1"].status = "CANCELLED"
    /\ migrations["m1"].completed_at # NoTime
    /\ migrations["m2"].status \in {"COMPLETED", "FAILED"}

\* C7: update_status called with the status the job already has leaves
\* updated_at, started_at and completed_at as they were.
C7_SameStatusKeepsTimestamps ==
    [][\A m \in Kept :
          (update_status(m, migrations[m].status) /\ UNCHANGED managerVars)
              => /\ migrations'[m].updated_at = migrations[m].updated_at
                 /\ migrations'[m].started_at = migrations[m].started_at
                 /\ migrations'[m].completed_at = migrations[m].completed_at]_vars

\* C8: no counter of a job ever decreases.
C8_CountersNeverDecrease ==
    [][\A m \in Kept :
          /\ migrations'[m].processed >= migrations[m].processed
          /\ migrations'[m].succeeded >= migrations[m].succeeded
          /\ migrations'[m].failed >= migrations[m].failed]_vars

\* The counts an event carries add up.
CountsAgree(ev) ==
    /\ ev.type \in {"progress", "step_complete"}
          => ev.records_processed = ev.records_succeeded + ev.records_failed
    /\ ev.type = "complete"
          => ev.total_processed = ev.total_succeeded + ev.total_failed

\* C3: the counters of every job and of every batch loop, and the counts of
\* every progress, step_complete and complete event broadcast, satisfy
\* processed = succeeded + failed.
C3_ProcessedIsSucceededPlusFailed ==
    /\ \A m \in DOMAIN migrations :
          migrations[m].processed = migrations[m].succeeded + migrations[m].failed
    /\ \A m \in MigrationIds :
          /\ orch[m].tp = orch[m].ts + orch[m].tf
          /\ orch[m].ep = orch[m].es + orch[m].ef
          /\ CountsAgree(sent[m].last)
    /\ \A q \in DOMAIN items :
          \A i \in 1..Len(items[q]) : CountsAgree(items[q][i])

\* A reader holds the progress event of a batch with a failed record, after
\* the job's counters were persisted.
C3_Witness ==
    \E q \in DOMAIN sessions :
        /\ items[q] # <<>>
        /\ Head(items[q]).type = "progress"
        /\ Head(items[q]).records_failed > 0
        /\ migrations[sessions[q].mid].failed > 0

\* C4: once the batch loop has observed a requested cancellation the job's
\* status is CANCELLED and stays so, and the loop broadcasts no event and
\* no queue of the migration grows.
C4_CancelledStaysCancelled ==
    [][\A m \in DOMAIN migrations' :
          /\ orch'[m].acked => migrations'[m].status = "CANCELLED"
          /\ orch[m].acked
                => /\ sent'[m] = sent[m]
                   /\ \A q \in DOMAIN sessions \cap DOMAIN sessions' :
                         sessions[q].mid = m => Len(items'[q]) <= Len(items[q])]_vars

\* A cancellation observed after the first progress event, with a reader
\* still connected.
C4_Witness ==
    \E m \in DOMAIN migrations :
        /\ orch[m].acked
        /\ migrations[m].status = "CANCELLED"
        /\ sent[m].n > 0
        /\ \E q \in DOMAIN sessions : sessions[q].mid = m

\* C9: the registry never maps an id to the empty set, and unsubscribe
\* removes the queue it is given.
C9_NoEmptySubscriberSet ==
    [][/\ \A m \in DOMAIN queues' : queues'[m] # {}
       /\ (call'.op = "unsubscribe" /\ call'.mid \in DOMAIN queues')
             => call'.q \notin queues'[call'.mid]]_vars

\* Both queues subscribed and unsubscribed again: the registry is empty.
C9_Witness ==
    /\ nq >= 2
    /\ call.op = "unsubscribe"
    /\ queues = <<>>

\* The send_ operations, each a broadcast
Sends == {"send_progress", "send_step_complete", "send_error", "send_complete"}

\* C10: a broadcast for an id without subscribers leaves the registry and
\* every queue as they were.
C10_BroadcastWithoutSubscribers ==
    [][(call'.op \in Sends /\ call'.mid \notin DOMAIN queues)
          => UNCHANGED <<queues, items, nq>>]_vars

\* One id has no subscribers while the other has one whose queue holds an
\* event.
C10_Witness ==
    /\ call.op \in Sends
    /\ call.mid \notin DOMAIN queues
    /\ \E o \in DOMAIN queues :
          \E q \in queues[o] : items[q] # <<>>

\* The type of the event each send_ operation broadcasts
SentType(op) ==
    CASE op = "send_progress" -> "progress"
      [] op = "send_step_complete" -> "step_complete"
      [] op = "send_error" -> "error"
      [] op = "send_complete" -> "complete"

\* C11: the queue subscribe returns is empty, and afterwards a queue gains
\* events only by a broadcast for the id it is registered under, one event
\* of that broadcast's type at its end for each broadcast; nothing that
\* was broadcast before the subscription enters it.
C11_OnlyLaterEvents ==
    [][/\ call'.op = "subscribe" => items'[call'.q] = <<>>
       /\ \A q \in DOMAIN items :
             items'[q] # items[q]
                => \/ call'.op = "get" /\ call'.q = q /\ items'[q] = Tail(items[q])
                   \/ /\ call'.op \in Sends
                      /\ call'.mid \in DOMAIN queues
                      /\ q \in queues[call'.mid]
                      /\ Len(items'[q]) = Len(items[q]) + 1
                      /\ SubSeq(items'[q], 1, Len(items[q])) = items[q]
                      /\ items'[q][Len(items'[q])].type = SentType(call'.op)]_vars

\* A second subscriber of an id has just subscribed, after an event was
\* broadcast to the first: its queue is empty while the first holds the
\* event.
C11_Witness ==
    /\ call.op = "subscribe"
    /\ call.q = 2
    /\ queues[call.mid] = {1, 2}
    /\ items[1] # <<>>
    /\ items[2] = <<>>

\* C12: the queue subscribe returns was not constructed before; on return
\* it is registered under the id, and every queue registered before the
\* call, under this id or another, is still registered.
C12_SubscribeRegistersNewQueue ==
    [][call'.op = "subscribe"
          => /\ call'.q \notin Constructed
             /\ call'.q \in Constructed'
             /\ call'.mid \in DOMAIN queues'
             /\ call'.q \in queues'[call'.mid]
             /\ \A m \in DOMAIN queues :
                   m \in DOMAIN queues' /\ queues[m] \subseteq queues'[m]]_vars

\* The second subscriber of an id is registered next to the first.
C12_Witness ==
    /\ call.op = "subscribe"
    /\ nq = 2
    /\ \E m \in DOMAIN queues : queues[m] = {1, 2} /\ call.mid = m

\* The session of queue q has yielded a complete or an error event
Ending(q) ==
    sessions[q].pc = "yielded" /\ sessions[q].type \in {"complete", "error"}

\* C13: a session that has delivered a complete or an error event takes
\* nothing more from its queue and delivers nothing more, whatever is
\* queued or broadcast; its next step ends it, and then its queue is
\* registered under no id.
C13_NothingAfterTerminalEvent ==
    [][\A q \in DOMAIN sessions :
          Ending(q)
             => IF q \in DOMAIN sessions'
                THEN /\ sessions'[q] = sessions[q]
                     /\ Len(items'[q]) >= Len(items[q])
                ELSE \A m \in DOMAIN queues' : q \notin queues'[m]]_vars

\* A session has delivered a complete or an error event and a further
\* event of its migration is in its queue.
C13_Witness ==
    \E q \in DOMAIN sessions :
        /\ Ending(q)
        /\ items[q] # <<>>
        /\ q \in queues[sessions[q].mid]

\* The queues of the sessions that read migration m before and after a step
Readers(m) ==
    {q \in DOMAIN sessions \cap DOMAIN sessions' : sessions[q].mid = m}

\* C14: when the last entity mapping has finished the loop sets the status
\* COMPLETED and then broadcasts one complete event, which carries the
\* totals of the whole migration as the job has them and reaches every
\* reader; after it the loop broadcasts nothing for the migration.
C14_CompleteIsLast ==
    [][\A m \in Kept :
          LET o == orch[m]
              o2 == orch'[m]
              job == migrations[m]
          IN  /\ (o.pc = "finishing" /\ o2.pc # "finishing")
                    => migrations'[m].status = "COMPLETED" /\ o2.pc = "completing"
              /\ (sent'[m] # sent[m] /\ sent'[m].last.type = "complete")
                    => o.pc = "completing"
              /\ (o.pc = "completing" /\ o2.pc # "completing")
                    => /\ job.status = "COMPLETED"
                       /\ sent'[m].n = sent[m].n + 1
                       /\ sent'[m].last =
                             CompleteEvent(job.processed, job.succeeded, job.failed, now)
                       /\ \A q \in Readers(m) :
                             items'[q] = Append(items[q], sent'[m].last)
              /\ sent[m].last.type = "complete"
                    => /\ sent'[m] = sent[m]
                       /\ \A q \in Readers(m) : Len(items'[q]) <= Len(items[q])]_vars

\* A run over two entity mappings has ended COMPLETED; a reader holds the
\* complete event, whose totals count a record of each entity, one of them
\* failed.
C14_Witness ==
    \E m \in DOMAIN migrations :
        /\ orch[m].pc = "done"
        /\ migrations[m].status = "COMPLETED"
        /\ sent[m].last.type = "complete"
        /\ sent[m].last.total_processed = 2
        /\ sent[m].last.total_failed = 1
        /\ \E q \in DOMAIN sessions : items[q] = <<sent[m].last>>

\* The run of m has met a fatal error
Failed(m) ==
    orch[m].pc \in {"failing", "erroring"} \/ sent[m].last.type = "error"

\* C15: after a fatal error of the extraction or of the load the loop sets
\* the status FAILED and then broadcasts one error event with the error's
\* message to every reader; from the error on no batch is fetched, loaded or
\* counted, the loop broadcasts nothing else, and the status never becomes
\* COMPLETED.
C15_FatalErrorFails ==
    [][\A m \in Kept :
          LET o == orch[m]
              o2 == orch'[m]
          IN  /\ (o.pc = "failing" /\ o2.pc # "failing")
                    => migrations'[m].status = "FAILED" /\ o2.pc = "erroring"
              /\ (o.pc = "erroring" /\ o2.pc # "erroring")
                    => /\ o.error \in {"extract failed", "load failed"}
                       /\ sent'[m].n = sent[m].n + 1
                       /\ sent'[m].last = ErrorEvent(o.error, now)
                       /\ \A q \in Readers(m) :
                             items'[q] = Append(items[q], sent'[m].last)
                       /\ o2.pc = "done"
              /\ (o.pc = "erroring" \/ sent[m].last.type = "error")
                    => migrations'[m].status = "FAILED"
              /\ sent[m].last.type = "error" => sent'[m] = sent[m]
              /\ Failed(m)
                    => /\ o2.pc \in {"failing", "erroring", "done"}
                       /\ migrations'[m].status # "COMPLETED"
                       /\ <<o2.batches, o2.entity, o2.n, o2.ok, o2.bad, o2.pending>>
                             = <<o.batches, o.entity, o.n, o.ok, o.bad, o.pending>>
                       /\ <<o2.tp, o2.ts, o2.tf>> = <<o.tp, o.ts, o.tf>>
                       /\ migrations'[m].processed = migrations[m].processed]_vars

\* A run has ended FAILED by a fatal error of the load of its second
\* entity, after the batch of the first was counted; a reader holds the
\* error event.
C15_Witness ==
    \E m \in DOMAIN migrations :
        /\ orch[m].pc = "done"
        /\ migrations[m].status = "FAILED"
        /\ sent[m].last.type = "error"
        /\ sent[m].last.error = "load failed"
        /\ orch[m].entity = 2
        /\ migrations[m].processed > 0
        /\ \E q \in DOMAIN sessions : items[q] = <<sent[m].last>>

C17_DryRunLoadsNothing ==
    [][\A m \in Kept :
          LET o == orch[m]
              o2 == orch'[m]
          IN  migrations[m].dry_run
                 => /\ ~o2.load_called
                    /\ o2.pc # "loading"
                    /\ (o.pc = "loaded" /\ o2.pc = "counted")
                          => /\ o2.ts = o.ts + o.valid
                             /\ migrations'[m].succeeded
                                   = migrations[m].succeeded + o.valid]_vars

\* The dry run of a job has ended COMPLETED with a record counted as
\* succeeded.
C17_Witness ==
    \E m \in DOMAIN migrations :
        /\ migrations[m].dry_run
        /\ migrations[m].status = "COMPLETED"
        /\ migrations[m].succeeded > 0
        /\ ~orch[m].load_called

\* C20: a step of the job store leaves the entity_mappings of every job
\* that is not in DRAFT as they were.
C20_MappingsFrozenAfterStart ==
    [][\A m \in Kept :
          migrations[m].status # "DRAFT"
             => migrations'[m].entity_mappings = migrations[m].entity_mappings]_vars

\* The fields that are absent or empty in the data of a preview response
Missing(response) ==
    {f \in RequiredFields :
        f \notin DOMAIN response.transformed_data
           \/ response.transformed_data[f] = ""}

\* C18: the result of a preview whose transformed record lacks a required
\* field of the target schema, or has it empty, is not valid and has a
\* validation error that names the field.
C18_PreviewValidatesRequired ==
    (previewed.called /\ previewed.response.status_code = 200)
        => \A f \in Missing(previewed.response) :
              /\ ~previewed.response.is_valid
              /\ \E i \in DOMAIN previewed.response.validation_errors :
                    previewed.response.validation_errors[i].field = f

\* C19: every field mapping of every stored mapping names a recognized
\* transform kind.
C19_StoredKindsRecognized ==
    \A a \in DOMAIN _mappings :
        \A i \in DOMAIN _mappings[a].field_mappings :
            _mappings[a].field_mappings[i].transform \in TRANSFORM_TYPES

\* C21: the job of the id a create call draws is stored under that id with
\* status DRAFT and neither started_at nor completed_at, and every job
\* stored before the call is stored unchanged after it.
C21_CreateGivesDraft ==
    [][issued' # issued
          => /\ \E m \in issued' \ issued :
                   /\ issued' = issued \cup {m}
                   /\ m \in DOMAIN migrations'
                   /\ migrations'[m].status = "DRAFT"
                   /\ migrations'[m].started_at = NoTime
                   /\ migrations'[m].completed_at = NoTime
             /\ \A o \in DOMAIN migrations :
                   o \in DOMAIN migrations' /\ migrations'[o] = migrations[o]]_vars

\* A job was created after another had been started: the new one is in
\* DRAFT, the older one is as it was.
C21_Witness ==
    /\ DOMAIN migrations = MigrationIds
    /\ migrations["m1"].status = "EXTRACTING"
    /\ migrations["m1"].started_at # NoTime
    /\ migrations["m2"].status = "DRAFT"
    /\ migrations["m2"].created_at > migrations["m1"].updated_at
    /\ migrations["m2"].updated_at = migrations["m2"].created_at

\* Every queue in the registry was constructed, and is under one id only
RegistryConsistent ==
    /\ \A m \in DOMAIN queues : queues[m] # {} /\ queues[m] \subseteq Constructed
    /\ \A m, o \in DOMAIN queues : m # o => queues[m] \cap queues[o] = {}

\* C22: a broadcast never fails, whatever subscribe and unsubscribe calls
\* the sessions make; when it ends, every queue that was registered under
\* its id when it started and still is holds the event as its newest; the
\* registry is consistent throughout and a turn of the broadcast leaves it
\* as it was.
C22_BroadcastAmongSubscribers ==
    [][/\ bcast'.pc # "failed"
       /\ RegistryConsistent'
       /\ (bcast.pc # "idle" /\ bcast'.pc # bcast.pc) => queues' = queues /\ nq' = nq
       /\ (bcast.pc # "idle" /\ bcast'.pc = "idle")
             => \A q \in bcast.start :
                   (bcast.mid \in DOMAIN queues /\ q \in queues[bcast.mid])
                      => /\ q \in bcast.done
                         /\ items[q] # <<>>
                         /\ items[q][Len(items[q])] = bcast.event]_vars

\* A broadcast to two subscribers is half way: one queue holds the event,
\* the other does not yet.
C22_Witness ==
    /\ bcast.pc = "iterating"
    /\ bcast.start = {1, 2}
    /\ Cardinality(bcast.done) = 1
    /\ Cardinality(bcast.todo) = 1

\* The session of queue q has yielded a keepalive
Idling(q) ==
    sessions[q].pc = "yielded" /\ sessions[q].type = "keepalive"

\* s is the start of t
Prefix(s, t) == Len(s) <= Len(t) /\ SubSeq(t, 1, Len(s)) = s

\* C23: a session yields a keepalive only with its queue empty, and the
\* keepalive changes neither the registry nor any queue; until its client
\* disconnects the session stays registered and goes back to waiting, and
\* its queue keeps every event broadcast meanwhile, in order, for it to take.
C23_KeepaliveKeepsSession ==
    [][\A q \in DOMAIN sessions :
          /\ (~Idling(q) /\ q \in DOMAIN sessions' /\ sessions'[q].type = "keepalive")
                => /\ sessions[q].pc = "waiting"
                   /\ items[q] = <<>>
                   /\ UNCHANGED managerVars
          /\ (Idling(q) /\ q \in DOMAIN sessions')
                => /\ sessions'[q] = sessions[q]
                      \/ sessions'[q] = [sessions[q] EXCEPT !.pc = "waiting",
                                                            !.type = "none"]
                   /\ sessions'[q].mid \in DOMAIN queues'
                   /\ q \in queues'[sessions'[q].mid]
                   /\ Prefix(items[q], items'[q])
                   /\ sessions'[q].pc = "waiting" => items'[q] = items[q]]_vars

\* A session has yielded a keepalive and its queue holds an event
\* broadcast since.
C23_Witness ==
    \E q \in DOMAIN sessions :
        /\ Idling(q)
        /\ items[q] # <<>>
        /\ q \in queues[sessions[q].mid]

\* The job, the subscriber set and the queues of migration o are after the
\* step what they were before it
Untouched(o) ==
    /\ o \in DOMAIN migrations
          => o \in DOMAIN migrations' /\ migrations'[o] = migrations[o]
    /\ o \notin DOMAIN migrations => o \notin DOMAIN migrations'
    /\ o \in DOMAIN queues
          => /\ o \in DOMAIN queues'
             /\ queues'[o] = queues[o]
             /\ \A q \in queues[o] : items'[q] = items[q]
    /\ o \notin DOMAIN queues => o \notin DOMAIN queues'

\* C24: a create, update_status, subscribe, unsubscribe or broadcast call
\* for one migration id leaves the job, the subscriber set and the queue
\* contents of every other id as they were.
C24_OtherIdsUntouched ==
    [][\A o \in MigrationIds : o # call'.mid => Untouched(o)]_vars

\* unsubscribe was called for one id with a queue of the other id, which
\* holds an event: the queue is still registered under its id.
C24_Witness ==
    /\ call.op = "unsubscribe"
    /\ call.mid = "m1"
    /\ "m2" \in DOMAIN queues
    /\ call.q \in queues["m2"]
    /\ items[call.q] # <<>>

\* C25: a broadcast goes over the queues registered under its id when it
\* starts and appends its event to each of them once, and to no other
\* queue; a queue changes only by the event of a broadcast put at its end
\* or by its oldest event being taken, so a subscriber takes the events in
\* the order of their broadcasts.
C25_OneCopyInOrder ==
    [][/\ (bcast.pc = "idle" /\ bcast'.pc # "idle")
             => /\ bcast'.start = queues[bcast'.mid]
                /\ bcast'.todo = bcast'.start
                /\ bcast'.done = {}
                /\ items' = items
       /\ (bcast.pc = "iterating" /\ bcast'.pc = "iterating")
             => \E q \in bcast.todo :
                   /\ items' = [items EXCEPT ![q] = Append(@, bcast.event)]
                   /\ bcast'.todo = bcast.todo \ {q}
                   /\ bcast'.done = bcast.done \cup {q}
       /\ (bcast.pc = "iterating" /\ bcast'.pc = "idle")
             => /\ bcast.todo = {}
                /\ bcast.done = bcast.start
                /\ bcast.start = queues[bcast.mid]
                /\ items' = items
       /\ \A q \in DOMAIN items :
             \/ items'[q] = items[q]
             \/ items[q] # <<>> /\ items'[q] = Tail(items[q])
             \/ /\ bcast.pc = "iterating"
                /\ q \in queues[bcast.mid]
                /\ items'[q] = Append(items[q], bcast.event)]_vars

\* Two broadcasts to the two subscribers of an id have ended: both queues
\* hold the two events, which differ, in the order of the broadcasts, and
\* the queue of no one else holds anything.
C25_Witness ==
    /\ bcast.pc = "idle"
    /\ \E m \in DOMAIN queues :
          /\ queues[m] = {1, 2}
          /\ Len(items[1]) = 2
          /\ items[1][1].type = "error"
          /\ items[1][2].type = "complete"
          /\ items[2] = items[1]

\* C26: a session of a migration whose status is COMPLETED, FAILED or
\* CANCELLED ends at some time, whether or not its client disconnects.
C26_SessionsOfEndedRunsEnd ==
    \A m \in RunIds : \A q \in RunReaders :
        [](( /\ m \in DOMAIN migrations
             /\ migrations[m].status \in Terminal
             /\ q \in DOMAIN sessions
             /\ sessions[q].mid = m )
            => <>(q \notin DOMAIN sessions))

\* C27: every queue in the registry is the queue of a running session of
\* the id it is registered under.
C27_RegistryHoldsRunningSessions ==
    \A m \in DOMAIN queues :
        \A q \in queues[m] : q \in DOMAIN sessions /\ sessions[q].mid = m

\* The first session has ended, its queue is gone from the registry; the
\* second is running and registered, with an event in its queue.
C27_Witness ==
    /\ nq = 2
    /\ DOMAIN sessions = {2}
    /\ DOMAIN queues = {sessions[2].mid}
    /\ queues[sessions[2].mid] = {2}
    /\ items[2] # <<>>

\* Queue q is registered under some id
Registered(q) == \E m \in DOMAIN queues : q \in queues[m]

\* C28: unsubscribe(id, q) takes q, and nothing else, out of the set of
\* id, and changes nothing when q is not in that set or id has no set; a
\* queue that is not registered is never registered again and no broadcast
\* adds to it, while a broadcast adds one event to every queue that is
\* registered under its id.
C28_UnsubscribedGetsNothing ==
    [][/\ call'.op = "unsubscribe"
             => /\ items' = items
                /\ IF call'.mid \in DOMAIN queues /\ call'.q \in queues[call'.mid]
                   THEN /\ \A m \in DOMAIN queues \ {call'.mid} :
                              m \in DOMAIN queues' /\ queues'[m] = queues[m]
                        /\ \A r \in queues[call'.mid] \ {call'.q} :
                              call'.mid \in DOMAIN queues' /\ r \in queues'[call'.mid]
                        /\ \A m \in DOMAIN queues' : call'.q \notin queues'[m]
                   ELSE queues' = queues
       /\ \A q \in Constructed :
             ~Registered(q) => ~Registered(q)' /\ Len(items'[q]) <= Len(items[q])
       /\ (call'.op \in Sends /\ call'.mid \in DOMAIN queues)
             => \A r \in queues[call'.mid] : Len(items'[r]) = Len(items[r]) + 1]_vars

\* The first of two subscribers of an id was unsubscribed; the broadcast
\* that followed reached the second only.
C28_Witness ==
    /\ call.op \in Sends
    /\ nq = 2
    /\ ~Registered(1)
    /\ DOMAIN queues = {call.mid}
    /\ queues[call.mid] = {2}
    /\ items[1] = <<>>
    /\ items[2] # <<>>

\* C29: every transform kind in a mapping suggested by suggest_mappings is
\* one of the kinds listed in TRANSFORM_TYPES.
C29_SuggestedKindsRecognized ==
    suggested.called
        => \A i \in DOMAIN suggested.mappings :
              suggested.mappings[i].transform \in TRANSFORM_TYPES

\* C30: a preview result (200) has is_valid true exactly when its list of
\* validation errors is empty, and a request whose record raised an
\* exception is rejected with 400 and never answered with is_valid true.
C30_ValidIffNoErrors ==
    previewed.called
        => /\ previewed.response.status_code \in {200, 400}
           /\ previewed.response.status_code = 200
                 => (previewed.response.is_valid
                        <=> previewed.response.validation_errors = <<>>)
           /\ previewed.response.status_code = 400
                 => ~previewed.response.is_valid
           /\ (\E i \in DOMAIN previewed.request.field_mappings :
                  previewed.request.field_mappings[i].transform \notin TRANSFORM_TYPES)
                 => previewed.response.status_code = 400

\* A preview whose second field mapping failed while the first one wrote
\* its field: a result with one validation error that is not valid.
C30_Witness ==
    /\ previewed.called
    /\ previewed.response.status_code = 200
    /\ Len(previewed.response.validation_errors) = 1
    /\ previewed.response.transformed_data # <<>>
    /\ ~previewed.response.is_valid

\* C31: update, update_status and delete called with an id that is not in
\* the store return None, or False for delete, and leave the store with
\* every job and every timestamp in it as it was.
C31_MissingIdChangesNothing ==
    [][(call'.op \in {"update", "update_status", "delete"}
          /\ call'.mid \notin DOMAIN migrations)
         => /\ migrations' = migrations
            /\ returned' = IF call'.op = "delete" THEN "False" ELSE None]_vars

\* update_status was called with an id the store does not hold while it
\* holds a completed job: the call returned None.
C31_Witness ==
    /\ call.op = "update_status"
    /\ call.mid \notin DOMAIN migrations
    /\ returned = None
    /\ \E m \in DOMAIN migrations : migrations[m].completed_at # NoTime

\* C32: a token verify_session_token accepts was made by a login that
\* succeeded, is still in the sessions, has not passed its expiry and was
\* never logged out or found expired; only a login with the admin
\* credentials makes a token, and a login with other credentials leaves
\* the sessions as they were.
C32_OnlyLiveTokensAccepted ==
    [][/\ (auth'.op = "verify_session_token" /\ auth'.ok)
             => /\ auth'.token \in 1..ntokens
                /\ auth'.token \in DOMAIN _sessions
                /\ now <= _sessions[auth'.token]
                /\ auth'.token \notin revoked
       /\ (ntokens' # ntokens \/ DOMAIN _sessions' \ DOMAIN _sessions # {})
             => /\ auth'.op = "login"
                /\ verify_credentials(auth'.username, auth'.password)
                /\ DOMAIN _sessions' \ DOMAIN _sessions = {ntokens'}
                /\ ntokens' = ntokens + 1
       /\ (auth'.op = "login" /\ ~verify_credentials(auth'.username, auth'.password))
             => _sessions' = _sessions /\ ntokens' = ntokens
       /\ revoked \subseteq revoked'
       /\ (auth'.op = "logout" /\ auth'.token \in DOMAIN _sessions)
             => auth'.token \in revoked'
       /\ (auth'.op = "verify_session_token" /\ ~auth'.ok
              /\ auth'.token \in DOMAIN _sessions)
             => auth'.token \in revoked']_vars

\* The first token was found expired and is refused, while the second,
\* made later, is still in the sessions.
C32_Witness ==
    /\ auth.op = "verify_session_token"
    /\ auth.token = 1
    /\ ~auth.ok
    /\ 1 \in revoked
    /\ DOMAIN _sessions = {2}
    /\ now <= _sessions[2]

\* C33: every stored job has created_at <= updated_at, and a job whose
\* completed_at is set has started_at set too, with
\* started_at <= completed_at.
C33_TimestampsOrdered ==
    \A m \in DOMAIN migrations :
        /\ migrations[m].created_at <= migrations[m].updated_at
        /\ migrations[m].completed_at # NoTime
              => /\ migrations[m].started_at # NoTime
                 /\ migrations[m].started_at <= migrations[m].completed_at
====
